---- MODULE Spec2Model ----
(***************************************************************************)
(* A model of src/main.cpp: the JsonValue hierarchy (JsonNull, JsonString, *)
(* JsonNumber, JsonBoolean, JsonObject, JsonArray), the two insertion      *)
(* operations JsonObject::add and JsonArray::add, and toString.            *)
(*                                                                         *)
(* Text is a sequence of one-character strings, so "null" is               *)
(* <<"n","u","l","l">> and string concatenation is \o.                     *)
(*                                                                         *)
(* Every value lives on the heap (std::make_unique) and is reached through *)
(* the std::unique_ptr that owns it: `held` is the set of values owned by  *)
(* a unique_ptr of the driver, and a value moved into a composite is owned *)
(* by that composite from then on.  The driver calls add and toString only *)
(* through a unique_ptr it owns, as main does.                             *)
(*                                                                         *)
(* A JsonNumber holds its double as a count of tenths (33 is 3.3), which   *)
(* the default stream format prints exactly.                               *)
(*                                                                         *)
(* `last` and `addLog` record the calls made; the program keeps neither.   *)
(***************************************************************************)
EXTENDS Integers, Sequences, FiniteSets, TLC

\* ------------------------------------------------------------------ bounds

\* How many values the driver constructs.
MaxNodes == 3

\* The keys handed to JsonObject::add (main uses "a" .. "i").
Keys == { <<"f">>, <<"g">> }

\* The contents handed to JsonString: plain text, and text holding a quote,
\* a backslash and a control character.
StringInputs == { <<>>, <<"s", "3">>, <<"\"", "\\", "\n">> }

\* The doubles handed to JsonNumber, counted in tenths: 33 is 3.3, 20 is 2.0,
\* -5 is -0.5.
NumberInputs == { 33, -5, 20 }

\* The scalars of main's array: "s3" and 3.3.
TreeStrings == { <<"s", "3">> }
TreeNumbers == { 33 }

\* ------------------------------------------------------------------- state

VARIABLES
  heap,       \* heap[v]: the object make_unique allocated v-th
  held,       \* the values owned by a unique_ptr of the driver
  destroyed,  \* the values deleted through a unique_ptr<JsonValue>
  status,     \* "running", or "crashed" once undefined behaviour has struck
  last,       \* the call made last: [op, recv, key, arg, result]
  addLog      \* addLog[c]: the (key, value) pairs add was called with on composite c

vars == <<heap, held, destroyed, status, last, addLog>>

\* The empty slots of a call record.
NoArg == 0
NoKey == <<>>
NoResult == <<>>

Call(op, recv, key, arg, result) ==
  [op |-> op, recv |-> recv, key |-> key, arg |-> arg, result |-> result]

Nodes == 1..Len(heap)

\* --------------------------------------------------------------- the classes

JsonNullNode == [kind |-> "null", value_ |-> <<>>, values_ |-> <<>>, properties_ |-> <<>>]

JsonStringNode(value) ==
  [kind |-> "string", value_ |-> value, values_ |-> <<>>, properties_ |-> <<>>]

JsonNumberNode(value) ==
  [kind |-> "number", value_ |-> value, values_ |-> <<>>, properties_ |-> <<>>]

JsonBooleanNode(value) ==
  [kind |-> "boolean", value_ |-> value, values_ |-> <<>>, properties_ |-> <<>>]

\* properties_ is the unordered_map in its iteration order: a sequence of
\* [key, value] entries with pairwise different keys.
JsonObjectNode == [kind |-> "object", value_ |-> <<>>, values_ |-> <<>>, properties_ |-> <<>>]

JsonArrayNode == [kind |-> "array", value_ |-> <<>>, values_ |-> <<>>, properties_ |-> <<>>]

\* ------------------------------------------------------------------ helpers

RECURSIVE Flatten(_)
Flatten(ss) == IF ss = <<>> THEN <<>> ELSE Head(ss) \o Flatten(Tail(ss))

Range(f) == { f[i] : i \in DOMAIN f }

KeysOf(node) == { e.key : e \in Range(node.properties_) }

\* The value stored under a key that is present.
Lookup(node, key) == (CHOOSE e \in Range(node.properties_) : e.key = key).value

\* The values a composite owns directly.
Children(h, v) ==
  Range(h[v].values_) \cup { e.value : e \in Range(h[v].properties_) }

\* Every ordering of a set of map entries: the iteration order of an
\* unordered_map is unspecified, and an insert may rehash.
Orders(S) ==
  { p \in [1..Cardinality(S) -> S] : \A i, j \in 1..Cardinality(S) : p[i] = p[j] => i = j }

\* ---------------------------------------------------------------- toString

Digit(d) == <<"0", "1", "2", "3", "4", "5", "6", "7", "8", "9">>[d + 1]

RECURSIVE Digits(_)
Digits(n) == IF n < 10 THEN <<Digit(n)>> ELSE Digits(n \div 10) \o <<Digit(n % 10)>>

\* operator<<(double) in the stream's default format (%g, precision 6) for a
\* double of t tenths, |t| < 10^6: the integer part, then the tenths digit
\* after a '.' unless it is zero.
NumberToString(t) ==
  LET a == IF t < 0 THEN -t ELSE t
      sign == IF t < 0 THEN <<"-">> ELSE <<>>
      frac == IF a % 10 = 0 THEN <<>> ELSE <<".", Digit(a % 10)>>
  IN  sign \o Digits(a \div 10) \o frac

\* ss << value_ without std::boolalpha.
BoolNumeric(b) == IF b THEN <<"1">> ELSE <<"0">>

BoolAlpha(b) == IF b THEN <<"t", "r", "u", "e">> ELSE <<"f", "a", "l", "s", "e">>

JsonNullToString == <<"n", "u", "l", "l">>

\* A toString that escapes quotes and backslashes.
RECURSIVE Escaped(_)
Escaped(s) ==
  IF s = <<>> THEN <<>>
  ELSE (IF Head(s) \in {"\"", "\\"} THEN <<"\\", Head(s)>> ELSE <<Head(s)>>) \o Escaped(Tail(s))

JsonStringToStringEscaped(value) == <<"\"">> \o Escaped(value) \o <<"\"">>

JsonStringToString(value) == <<"\"">> \o value \o <<"\"">>

JsonNumberToString(value) == NumberToString(value)

JsonBooleanToStringNumeric(value) == BoolNumeric(value)

JsonBooleanToString(value) == BoolAlpha(value)

\* An entry whose key is quoted.
ObjectEntryQuoted(key, text) == <<"\"">> \o key \o <<"\"">> \o <<":">> \o text \o <<",">>

\* ss << key << ':' << value->toString() << ','
ObjectEntry(key, text) == key \o <<":">> \o text \o <<",">>

\* ss << value->toString() << ','
ArrayElement(text) == text \o <<",">>

JsonObjectToString(pieces) == <<"{">> \o Flatten(pieces) \o <<"}">>

\* An array whose commas separate the elements: none after the last.
JsonArrayToStringJoined(pieces) ==
  LET all == Flatten(pieces)
  IN  <<"[">> \o (IF all = <<>> THEN <<>> ELSE SubSeq(all, 1, Len(all) - 1)) \o <<"]">>

JsonArrayToString(pieces) == <<"[">> \o Flatten(pieces) \o <<"]">>

RECURSIVE toString(_, _)

\* A toString that prints a composite inside a composite as empty.
toStringShallow(h, v) ==
  LET node == h[v]
      child(c) == CASE h[c].kind = "object" -> <<"{", "}">>
                    [] h[c].kind = "array" -> <<"[", "]">>
                    [] OTHER -> toString(h, c)
  IN  CASE node.kind = "object" ->
             JsonObjectToString(
               [i \in DOMAIN node.properties_ |->
                  ObjectEntry(node.properties_[i].key, child(node.properties_[i].value))])
        [] node.kind = "array" ->
             JsonArrayToString(
               [i \in DOMAIN node.values_ |-> ArrayElement(child(node.values_[i]))])
        [] node.kind = "null" -> JsonNullToString
        [] node.kind = "string" -> JsonStringToString(node.value_)
        [] node.kind = "number" -> JsonNumberToString(node.value_)
        [] node.kind = "boolean" -> JsonBooleanToString(node.value_)

toString(h, v) ==
  LET node == h[v] IN
  CASE node.kind = "null" -> JsonNullToString
    [] node.kind = "string" -> JsonStringToString(node.value_)
    [] node.kind = "number" -> JsonNumberToString(node.value_)
    [] node.kind = "boolean" -> JsonBooleanToString(node.value_)
    [] node.kind = "object" ->
         JsonObjectToString(
           [i \in DOMAIN node.properties_ |->
              ObjectEntry(node.properties_[i].key, toString(h, node.properties_[i].value))])
    [] node.kind = "array" ->
         JsonArrayToString(
           [i \in DOMAIN node.values_ |-> ArrayElement(toString(h, node.values_[i]))])

\* ------------------------------------------------------------------ actions

Init ==
  /\ heap = <<>>
  /\ held = {}
  /\ destroyed = {}
  /\ status = "running"
  /\ last = Call("none", NoArg, NoKey, NoArg, NoResult)
  /\ addLog = <<>>

\* std::make_unique<T>(...): a new object, owned by a unique_ptr of the driver.
MakeUnique(node, op) ==
  /\ status = "running"
  /\ Len(heap) < MaxNodes
  /\ heap' = Append(heap, node)
  /\ held' = held \cup {Len(heap) + 1}
  /\ addLog' = Append(addLog, <<>>)
  /\ last' = Call(op, Len(heap) + 1, NoKey, NoArg, NoResult)
  /\ UNCHANGED <<destroyed, status>>

MakeNull == MakeUnique(JsonNullNode, "JsonNull")

MakeString(value) == MakeUnique(JsonStringNode(value), "JsonString")

MakeNumber(value) == MakeUnique(JsonNumberNode(value), "JsonNumber")

MakeBoolean(value) == MakeUnique(JsonBooleanNode(value), "JsonBoolean")

MakeObject == MakeUnique(JsonObjectNode, "JsonObject")

MakeArray == MakeUnique(JsonArrayNode, "JsonArray")

\* An add that stores the value at the front of values_.
ArrayAddFront(a, v) ==
  /\ status = "running"
  /\ a \in held /\ heap[a].kind = "array"
  /\ v \in held
  /\ heap' = [heap EXCEPT ![a].values_ = <<v>> \o @]
  /\ held' = held \ {v}
  /\ addLog' = [addLog EXCEPT ![a] = Append(@, [key |-> NoKey, value |-> v])]
  /\ last' = Call("JsonArray::add", a, NoKey, v, NoResult)
  /\ UNCHANGED <<destroyed, status>>

\* a->add(std::move(v)): values_.push_back(std::move(value)).  The receiver
\* is evaluated before the argument is moved from, so a->add(std::move(a))
\* is a call like any other.
ArrayAdd(a, v) ==
  /\ status = "running"
  /\ a \in held /\ heap[a].kind = "array"
  /\ v \in held
  /\ heap' = [heap EXCEPT ![a].values_ = Append(@, v)]
  /\ held' = held \ {v}
  /\ addLog' = [addLog EXCEPT ![a] = Append(@, [key |-> NoKey, value |-> v])]
  /\ last' = Call("JsonArray::add", a, NoKey, v, NoResult)
  /\ UNCHANGED <<destroyed, status>>

\* unordered_map::insert of a key that is absent: the entry is stored, in
\* whatever place the table gives it.
InsertNew(o, name, v) ==
  /\ name \notin KeysOf(heap[o])
  /\ \E order \in Orders(Range(heap[o].properties_) \cup {[key |-> name, value |-> v]}) :
       heap' = [heap EXCEPT ![o].properties_ = order]
  /\ UNCHANGED <<destroyed, status>>

\* insert_or_assign: the entry of a key that is present takes the new value,
\* and the value it held is deleted.
InsertOrAssign(o, name, v) ==
  /\ name \in KeysOf(heap[o])
  /\ heap' = [heap EXCEPT ![o].properties_ =
                [i \in DOMAIN @ |-> IF @[i].key = name THEN [key |-> name, value |-> v] ELSE @[i]]]
  /\ destroyed' = destroyed \cup {Lookup(heap[o], name)}
  /\ \/ status' = "running"
     \/ status' = "crashed"

\* unordered_map::insert of a key that is present: nothing is stored, and the
\* unique_ptr<JsonValue> still holding the value deletes it as the call ends.
\* JsonValue has no virtual destructor, so that delete is undefined: the
\* build either frees the object as a JsonValue (its members are never
\* destroyed) or stops the program.
InsertDuplicate(o, name, v) ==
  /\ name \in KeysOf(heap[o])
  /\ heap' = heap
  /\ destroyed' = destroyed \cup {v}
  /\ \/ status' = "running"
     \/ status' = "crashed"

\* o->add(name, std::move(v)): properties_.insert({ std::move(name), std::move(value) }).
ObjectAdd(o, name, v) ==
  /\ status = "running"
  /\ o \in held /\ heap[o].kind = "object"
  /\ v \in held
  /\ \/ InsertNew(o, name, v)
     \/ InsertDuplicate(o, name, v)
  /\ held' = held \ {v}
  /\ addLog' = [addLog EXCEPT ![o] = Append(@, [key |-> name, value |-> v])]
  /\ last' = Call("JsonObject::add", o, name, v, NoResult)

\* A toString that moves the elements out of the array it prints.
CallToStringConsuming(v) ==
  /\ status = "running"
  /\ v \in held
  /\ heap' = [heap EXCEPT ![v].values_ = <<>>]
  /\ last' = Call("toString", v, NoKey, NoArg, toString(heap, v))
  /\ UNCHANGED <<held, destroyed, status, addLog>>

\* v->toString(), on a value the driver owns.
CallToString(v) ==
  /\ status = "running"
  /\ v \in held
  /\ last' = Call("toString", v, NoKey, NoArg, toString(heap, v))
  /\ UNCHANGED <<heap, held, destroyed, status, addLog>>

\* The driver of main: strings, numbers, objects and arrays, built bottom-up
\* and printed.
Next ==
  \/ \E value \in TreeStrings : MakeString(value)
  \/ \E value \in TreeNumbers : MakeNumber(value)
  \/ MakeObject
  \/ MakeArray
  \/ \E a \in Nodes, v \in Nodes : ArrayAdd(a, v)
  \/ \E o \in Nodes, name \in Keys, v \in Nodes : ObjectAdd(o, name, v)
  \/ \E v \in Nodes : CallToString(v)

Spec == Init /\ [][Next]_vars

\* A driver that builds arrays of every kind of scalar.
NextArray ==
  \/ MakeNull
  \/ \E value \in StringInputs : MakeString(value)
  \/ \E value \in NumberInputs : MakeNumber(value)
  \/ \E value \in BOOLEAN : MakeBoolean(value)
  \/ MakeArray
  \/ \E a \in Nodes, v \in Nodes : ArrayAdd(a, v)
  \/ \E v \in Nodes : CallToString(v)

SpecArray == Init /\ [][NextArray]_vars

\* ------------------------------------------------------- claims: vocabulary

Rendered(kind) == last.op = "toString" /\ heap[last.recv].kind = kind

RECURSIVE SumTo(_, _)
SumTo(f, n) == IF n = 0 THEN 0 ELSE f[n] + SumTo(f, n - 1)

IsInfix(s, t) == \E i \in 0..(Len(t) - Len(s)) : SubSeq(t, i + 1, i + Len(s)) = s

\* The values below v in the ownership structure.
RECURSIVE Below(_, _, _)
Below(h, S, n) ==
  IF n = 0 THEN S ELSE Below(h, S \cup UNION { Children(h, c) : c \in S }, n - 1)

Descendants(h, v) == Below(h, Children(h, v), Len(h))

\* In how many places of the ownership structure v is stored.
Places(h, v) ==
  Cardinality({ <<c, i>> \in Nodes \X (1..MaxNodes + 1) :
                  \/ i \in DOMAIN h[c].values_ /\ h[c].values_[i] = v
                  \/ i \in DOMAIN h[c].properties_ /\ h[c].properties_[i].value = v })

\* The value of the first add call that used `key`.
FirstAdded(log, key) ==
  log[CHOOSE i \in DOMAIN log : log[i].key = key /\ \A j \in 1..(i - 1) : log[j].key # key].value

\* The values of the add calls that used a key used before.
LaterAdded(log) ==
  { log[i].value : i \in { i \in DOMAIN log : \E j \in 1..(i - 1) : log[j].key = log[i].key } }

\* ---------------------------------------------------------------- claims

\* C1: an Array's toString() is '[', then for each element in insertion
\* order that element's toString() followed by one ',', then ']'; an Array
\* nothing was added to renders as "[]".
C1_ArrayRendering ==
  Rendered("array") =>
    LET log == addLog[last.recv]
        n == Len(log)
        text == [i \in 1..n |-> toString(heap, log[i].value)]
        at == [i \in 1..n |-> 2 + SumTo([j \in 1..n |-> Len(text[j]) + 1], i - 1)]
        r == last.result
    IN  /\ Len(r) = 2 + SumTo([j \in 1..n |-> Len(text[j]) + 1], n)
        /\ r[1] = "[" /\ r[Len(r)] = "]"
        /\ \A i \in 1..n :
             /\ SubSeq(r, at[i], at[i] + Len(text[i]) - 1) = text[i]
             /\ r[at[i] + Len(text[i])] = ","
        /\ (n = 0 => r = <<"[", "]">>)

\* Scenario 3: add("s3"), add(3.3) has been rendered, as ["s3",3.3,]
C1_Witness ==
  /\ Rendered("array")
  /\ Len(addLog[last.recv]) = 2
  /\ last.result = <<"[", "\"", "s", "3", "\"", ",", "3", ".", "3", ",", "]">>

\* C2: an Object's toString() is '{', then one segment key ':' value ','
\* per entry (key raw, a comma after every segment), in some order, then
\* '}'; an Object with no entry renders as "{}".
C2_ObjectRendering ==
  Rendered("object") =>
    LET entries == Range(heap[last.recv].properties_)
        segment(e) == e.key \o <<":">> \o toString(heap, e.value) \o <<",">>
        r == last.result
    IN  /\ r[1] = "{" /\ r[Len(r)] = "}"
        /\ \E p \in Orders(entries) :
             r = <<"{">> \o Flatten([i \in DOMAIN p |-> segment(p[i])]) \o <<"}">>
        /\ (entries = {} => r = <<"{", "}">>)

\* An Object with two entries has been rendered.
C2_Witness ==
  /\ Rendered("object")
  /\ Cardinality(KeysOf(heap[last.recv])) = 2

\* C3: a String's toString() is one '"', the content unchanged and
\* unescaped, and one '"': |s| + 2 characters, also when the content holds
\* a quote, a backslash or a control character.
C3_StringRendering ==
  Rendered("string") =>
    LET s == heap[last.recv].value_
        r == last.result
    IN  /\ Len(r) = Len(s) + 2
        /\ r[1] = "\"" /\ r[Len(r)] = "\""
        /\ \A i \in 1..Len(s) : r[i + 1] = s[i]

\* A String holding a quote, a backslash and a newline has been rendered.
C3_Witness ==
  /\ Rendered("string")
  /\ heap[last.recv].value_ = <<"\"", "\\", "\n">>

\* C4: Null renders as "null", Boolean as "true" or "false", wherever the
\* value is stored.
C4_NullBooleanRendering ==
  /\ Rendered("null") => last.result = <<"n", "u", "l", "l">>
  /\ Rendered("boolean") =>
       last.result = IF heap[last.recv].value_ THEN <<"t", "r", "u", "e">>
                     ELSE <<"f", "a", "l", "s", "e">>
  /\ \A v \in Nodes :
       /\ heap[v].kind = "null" => toString(heap, v) = <<"n", "u", "l", "l">>
       /\ heap[v].kind = "boolean" /\ heap[v].value_ => toString(heap, v) = <<"t", "r", "u", "e">>
       /\ heap[v].kind = "boolean" /\ ~heap[v].value_ =>
            toString(heap, v) = <<"f", "a", "l", "s", "e">>

\* Boolean(false) has been rendered while a Null sits in an array.
C4_Witness ==
  /\ Rendered("boolean") /\ ~heap[last.recv].value_
  /\ \E a \in Nodes, v \in Nodes : heap[v].kind = "null" /\ v \in Children(heap, a)

\* The rule of a scalar, by its variant.
LeafRule(node) ==
  CASE node.kind = "null" -> <<"n", "u", "l", "l">>
    [] node.kind = "boolean" -> IF node.value_ THEN <<"t", "r", "u", "e">> ELSE <<"f", "a", "l", "s", "e">>
    [] node.kind = "string" -> <<"\"">> \o node.value_ \o <<"\"">>
    [] node.kind = "number" -> NumberToString(node.value_)

IsLeaf(node) == node.kind \notin {"object", "array"}

\* C5: the output of a composite holds, at the place of each direct child,
\* that child's own toString() output, so every scalar below the root
\* appears in the root's output as its variant renders it, whatever order
\* the entries of an object come in.
C5_Nesting ==
  (Rendered("object") \/ Rendered("array")) =>
    LET root == heap[last.recv]
        r == last.result
        isArray == root.kind = "array"
        n == IF isArray THEN Len(root.values_) ELSE Len(root.properties_)
        child == [i \in 1..n |-> IF isArray THEN root.values_[i] ELSE root.properties_[i].value]
        lead == [i \in 1..n |-> IF isArray THEN 0 ELSE Len(root.properties_[i].key) + 1]
        text == [i \in 1..n |-> toString(heap, child[i])]
        at == [i \in 1..n |->
                 2 + SumTo([j \in 1..n |-> lead[j] + Len(text[j]) + 1], i - 1) + lead[i]]
    IN  /\ \A i \in 1..n :
             /\ at[i] + Len(text[i]) - 1 <= Len(r)
             /\ SubSeq(r, at[i], at[i] + Len(text[i]) - 1) = text[i]
        /\ \A v \in Descendants(heap, last.recv) :
             IsLeaf(heap[v]) => IsInfix(LeafRule(heap[v]), r)

\* An Object holding an Array holding a String has been rendered.
C5_Witness ==
  /\ Rendered("object")
  /\ \E a \in Children(heap, last.recv) :
       /\ heap[a].kind = "array"
       /\ \E s \in Children(heap, a) : heap[s].kind = "string"

\* C6: toString() changes no value, no Array's sequence and no Object's
\* mapping, and a further call on the same value returns the same string.
C6_ToStringIsPure ==
  [][last'.op = "toString" =>
       /\ heap' = heap
       /\ held' = held
       /\ destroyed' = destroyed
       /\ toString(heap', last'.recv) = last'.result]_vars

\* An Array with an element has been rendered.
C6_Witness ==
  /\ Rendered("array")
  /\ Len(heap[last.recv].values_) >= 1

\* C7: no operation fails: an add call that hands a value (another one
\* than the receiver itself) to a composite ends without an error, also when
\* the key is already present, and toString() returns a string.
C7_NoOperationFails ==
  /\ last.op \in {"JsonArray::add", "JsonObject::add"} /\ last.arg # last.recv =>
       status = "running"
  /\ last.op = "toString" => status = "running" /\ last.result \in Seq(STRING)

\* C8: no value is its own descendant, and no value is stored in two places.
C8_OwnershipForest ==
  \A v \in Nodes :
    /\ v \notin Descendants(heap, v)
    /\ Places(heap, v) <= 1

\* C9: Array.add appends: the sequence grows by the new value at its end,
\* the elements present stay as they are, and no other value changes.
C9_ArrayAddAppends ==
  [][last'.op = "JsonArray::add" =>
       LET a == last'.recv
           old == heap[a].values_
           new == heap'[a].values_
       IN  /\ Len(new) = Len(old) + 1
           /\ new[Len(new)] = last'.arg
           /\ \A i \in 1..Len(old) : new[i] = old[i]
           /\ Len(heap') = Len(heap)
           /\ \A v \in Nodes \ {a} : heap'[v] = heap[v]
           /\ heap'[a].kind = heap[a].kind /\ heap'[a].properties_ = heap[a].properties_]_vars

\* A second element has been added to an Array.
C9_Witness ==
  /\ last.op = "JsonArray::add"
  /\ Len(heap[last.recv].values_) = 2

\* C10: Object.add with a key already present changes nothing: an Object
\* has one entry per distinct key added, each key maps to the value of its
\* first add, and a value added under a used key is dropped and stored
\* nowhere.
C10_FirstAddWins ==
  \A o \in Nodes :
    heap[o].kind = "object" =>
      LET log == addLog[o]
          added == { log[i].key : i \in DOMAIN log }
      IN  /\ KeysOf(heap[o]) = added
          /\ Len(heap[o].properties_) = Cardinality(added)
          /\ \A k \in added : Lookup(heap[o], k) = FirstAdded(log, k)
          /\ \A v \in LaterAdded(log) :
               /\ v \notin held
               /\ \A c \in Nodes : v \notin Children(heap, c)

\* An Object has been rendered after an add with a key it already held.
C10_Witness ==
  /\ Rendered("object")
  /\ LaterAdded(addLog[last.recv]) # {}
  /\ Len(heap[last.recv].properties_) = 1

====
